---------------------------- MODULE Spec2Model ----------------------------
(***************************************************************************)
(* The blackjack round engine of blackjack-v-multi.  The repository holds  *)
(* three variants of the same engine:                                      *)
(*   "lobby"    src/src/App.jsx and src/unnamed/part_000: a lobby picks    *)
(*              1..4 seats, bets are placed with chip buttons, payout is   *)
(*              pooled whenever there is more than one seat;               *)
(*   "settings" src/unnamed/part_001: a settings panel that stays on the   *)
(*              page picks solo/multi, the seat count, the starting chips  *)
(*              and the pooled-pot switch, bets are typed.                 *)
(* part_000 is App.jsx plus the two display fields roundStartChips and     *)
(* delta; the player record below carries them in every variant.           *)
(*                                                                         *)
(* Money is held in units of 1/Den chip so that bet * 2.5 and bet * 1.5    *)
(* stay exact.  Cards are the numbers 1..52 in createDeck order; 0 is the  *)
(* JavaScript value undefined that pop() returns on an empty array.        *)
(* Indices (currentIndex, nextActiveIndex) are 0-based as in the source;   *)
(* players[i + 1] is the source's players[i].                              *)
(***************************************************************************)
EXTENDS Integers, Sequences, FiniteSets, TLC

\* ---------------------------------------------------------------- bounds
\* handleNextRound is not taken once the round counter has reached MaxRound
\* (lobby variant, seats in SeatPicks), MaxRoundSettings (settings variant) or
\* MaxRoundFullTable (lobby variant, seats in FullTablePicks).
MaxRound == 2
MaxRoundSettings == 1
MaxRoundFullTable == 3
MaxHandLen == 4

\* One chip is Den money units.  A settlement of the lobby variant can halve
\* the granularity of a balance once (bet * 2.5 of an all-in wager); typed
\* bets are half chips, so the settings variant never goes below a quarter.
Den == 2 ^ MaxRound

\* ------------------------------------------------------ program constants
STARTING_CHIPS == 1000
LowWater == 15
DealerStandsOn == 17
MaxSeats == 4
DeckSize == 52

Undefined == 0

\* The inputs the model draws.
\* The seat counts picked in the lobby (Spec) and at a full table (SpecFullTable).
SeatPicks == {1, 2}
FullTablePicks == {3, 4}
\* The chip buttons pressed (a subset of CHIP_VALUES), in chips.
ChipPresses == {25, 500}
\* The values typed into the bet field of the settings variant, in half chips:
\* 0, 12.5 chips, 1000 chips, 1001 chips.
TypedBets == {0, 25, 2000, 2002}
\* The values typed into the seat-count and starting-chips fields.
TypedSeatCounts == {1, 2}
TypedStartingChips == {1000}
\* The outcomes of Math.random(): the first value of each pseudo-random
\* stream a shuffle consumes.
Seeds == {3, 8}

\* ------------------------------------------------------------ Card / Deck
RankIndex(c) == (c - 1) % 13
SuitIndex(c) == (c - 1) \div 13
IsAce(c) == RankIndex(c) = 0

CardValue(c) ==
    IF RankIndex(c) = 0 THEN 11
    ELSE IF RankIndex(c) >= 10 THEN 10
    ELSE RankIndex(c) + 1

createDeck == [i \in 1..DeckSize |-> i]

\* Math.random(): a linear congruential stream; the value returned is x / 65537.
NextRandom(x) == (75 * x + 74) % 65537

Swap(d, a, b) == [d EXCEPT ![a] = d[b], ![b] = d[a]]

RECURSIVE FisherYates(_, _, _)
FisherYates(d, i, x) ==
    IF i <= 0 THEN d
    ELSE LET j == (x * (i + 1)) \div 65537
         IN  FisherYates(Swap(d, i + 1, j + 1), i - 1, NextRandom(x))

shuffle(cards, seed) == FisherYates(cards, Len(cards) - 1, NextRandom(seed))

\* Mutant: the card drawn stays on the deck.
drawCardKeeps(d) ==
    IF Len(d) = 0 THEN [card |-> Undefined, next |-> d]
    ELSE [card |-> d[Len(d)], next |-> d]

drawCard(d) ==
    IF Len(d) = 0 THEN [card |-> Undefined, next |-> d]
    ELSE [card |-> d[Len(d)], next |-> SubSeq(d, 1, Len(d) - 1)]

\* --------------------------------------------------------- Hand evaluator
RECURSIVE SumValues(_)
SumValues(hand) ==
    IF hand = <<>> THEN 0 ELSE CardValue(Head(hand)) + SumValues(Tail(hand))

CountAces(hand) == Cardinality({i \in 1..Len(hand) : IsAce(hand[i])})

\* Mutant: at most one ace is counted down to 1.
ReduceAcesOnce(total, aces) ==
    IF total > 21 /\ aces > 0 THEN total - 10 ELSE total

RECURSIVE ReduceAces(_, _)
ReduceAces(total, aces) ==
    IF total > 21 /\ aces > 0 THEN ReduceAces(total - 10, aces - 1) ELSE total

calculateHand(hand) == ReduceAces(SumValues(hand), CountAces(hand))

\* card.value of undefined raises a TypeError.
Throws(hand) == \E i \in 1..Len(hand) : hand[i] = Undefined

\* Mutant: any hand of 21 counts as a blackjack.
isBlackjackAnyLength(hand) == calculateHand(hand) = 21

isBlackjack(hand) == Len(hand) = 2 /\ calculateHand(hand) = 21

nextActiveIndex(ps, fromIndex) ==
    LET later == {i \in (fromIndex + 1)..(Len(ps) - 1) : ps[i + 1].status = "active"}
    IN  IF later = {} THEN -1 ELSE CHOOSE i \in later : \A k \in later : i <= k

\* ------------------------------------------------------------------ state
VARIABLES
    variant,        \* "lobby" (App.jsx, part_000) or "settings" (part_001)
    screen,         \* lobby variant: "lobby" or "table"
    mode,           \* settings variant: "single" or "multi"
    playerCount,    \* playerCount (lobby) / settings.playerCount
    startingChips,  \* settings.startingChips, in money units
    potMode,        \* settings.potMode
    phase,          \* "setup", "betting", "playing", "roundEnd"
    players,        \* sequence of player records
    dealer,         \* [hand, hidden]
    deck,           \* sequence of cards, drawn from the end
    currentIndex,   \* 0-based index of the acting player
    message,        \* which message is shown
    round,          \* round counter
    pot,            \* pooled pot, in money units
    fault           \* TRUE when the last handler ended in an uncaught TypeError

vars == <<variant, screen, mode, playerCount, startingChips, potMode, phase,
          players, dealer, deck, currentIndex, message, round, pot, fault>>

config == <<variant, screen, mode, playerCount, startingChips, potMode>>
table == <<phase, players, dealer, deck, currentIndex, round, pot>>

Chips(n) == n * Den

emptyDealer == [hand |-> <<>>, hidden |-> TRUE]

buildPlayers(count, starting) ==
    [i \in 1..count |->
        [chips |-> starting, roundStartChips |-> starting, bet |-> 0, hand |-> <<>>,
         status |-> "idle", result |-> "", delta |-> 0]]

\* isMulti (lobby variant) / mode === "multi" && settings.potMode (settings variant)
IsPooled ==
    IF variant = "lobby" THEN playerCount > 1 ELSE mode = "multi" /\ potMode

Init ==
    /\ variant \in {"lobby", "settings"}
    /\ screen = (IF variant = "lobby" THEN "lobby" ELSE "table")
    /\ mode = (IF variant = "lobby" THEN "none" ELSE "single")
    /\ playerCount = 2
    /\ startingChips = Chips(STARTING_CHIPS)
    /\ potMode = (variant = "settings")
    /\ phase = (IF variant = "lobby" THEN "betting" ELSE "setup")
    /\ players = (IF variant = "lobby" THEN <<>> ELSE buildPlayers(2, Chips(1000)))
    /\ dealer = emptyDealer
    /\ \E seed \in Seeds : deck = shuffle(createDeck, seed)
    /\ currentIndex = 0
    /\ message = ""
    /\ round = 1
    /\ pot = 0
    /\ fault = FALSE

\* --------------------------------------------------------------- dealing
\* Mutant: a short deck is dealt from as it is.
ensureDeckNever(current, seed) == current

ensureDeck(current, seed) ==
    IF Len(current) < LowWater THEN shuffle(createDeck, seed) ELSE current

RECURSIVE DealToPlayers(_, _)
DealToPlayers(st, p) ==
    IF p >= Len(st.hands) THEN st
    ELSE LET draw == drawCard(st.deck)
         IN  DealToPlayers([st EXCEPT !.deck = draw.next,
                                      !.hands[p + 1] = Append(@, draw.card)], p + 1)

\* Mutant: the dealer is served before the players in each pass.
DealPassDealerFirst(st) ==
    LET dealerDraw == drawCard(st.deck)
    IN  DealToPlayers([st EXCEPT !.deck = dealerDraw.next,
                                 !.dealerHand = Append(@, dealerDraw.card)], 0)

\* Mutant: a pass that skips the dealer.
DealPassPlayersOnly(st) == DealToPlayers(st, 0)

DealPass(st) ==
    LET a == DealToPlayers(st, 0)
        dealerDraw == drawCard(a.deck)
    IN  [a EXCEPT !.deck = dealerDraw.next, !.dealerHand = Append(@, dealerDraw.card)]

dealInitial(preparedDeck, preparedPlayers, seed) ==
    LET st0 == [deck |-> ensureDeck(preparedDeck, seed),
                hands |-> [i \in 1..Len(preparedPlayers) |-> <<>>],
                dealerHand |-> <<>>]
        st2 == DealPass(DealPass(st0))
    IN  [nextDeck |-> st2.deck,
         dealtPlayers |->
            [i \in 1..Len(preparedPlayers) |->
                [preparedPlayers[i] EXCEPT
                    !.hand = st2.hands[i],
                    !.result = "",
                    !.status = IF isBlackjack(st2.hands[i]) THEN "blackjack" ELSE "active"]],
         nextDealer |-> [hand |-> st2.dealerHand, hidden |-> TRUE]]

\* ------------------------------------------------------------ settlement
\* Mutant: the dealer's natural is tested before the player's.
resolveResultDealerFirst(player, dealerTotal, dealerBlackjack, dealerBust) ==
    LET playerTotal == calculateHand(player.hand)
    IN  IF player.status = "bust" THEN "lose"
        ELSE IF dealerBlackjack THEN "lose"
        ELSE IF isBlackjack(player.hand) THEN "blackjack"
        ELSE IF dealerBust THEN "win"
        ELSE IF playerTotal > dealerTotal THEN "win"
        ELSE IF playerTotal < dealerTotal THEN "lose"
        ELSE "push"

resolveResult(player, dealerTotal, dealerBlackjack, dealerBust) ==
    LET playerTotal == calculateHand(player.hand)
    IN  IF player.status = "bust" THEN "lose"
        ELSE IF isBlackjack(player.hand) /\ dealerBlackjack THEN "push"
        ELSE IF dealerBlackjack THEN "lose"
        ELSE IF isBlackjack(player.hand) THEN "blackjack"
        ELSE IF dealerBust THEN "win"
        ELSE IF playerTotal > dealerTotal THEN "win"
        ELSE IF playerTotal < dealerTotal THEN "lose"
        ELSE "push"

\* Mutant: the dealer draws at most one card.
DealerDrawOnce(hand, d) ==
    LET draw == drawCard(d)
    IN  IF calculateHand(hand) >= DealerStandsOn
        THEN [threw |-> FALSE, hand |-> hand, deck |-> d]
        ELSE IF draw.card = Undefined THEN [threw |-> TRUE, hand |-> hand, deck |-> d]
        ELSE [threw |-> FALSE, hand |-> Append(hand, draw.card), deck |-> draw.next]

\* The dealer's while loop; threw is the TypeError of calculateHand on a hand
\* that holds the undefined card drawn from an empty deck.
RECURSIVE DealerDraw(_, _)
DealerDraw(hand, d) ==
    IF calculateHand(hand) >= DealerStandsOn THEN [threw |-> FALSE, hand |-> hand, deck |-> d]
    ELSE LET draw == drawCard(d)
         IN  IF draw.card = Undefined THEN [threw |-> TRUE, hand |-> hand, deck |-> d]
             ELSE DealerDraw(Append(hand, draw.card), draw.next)

RECURSIVE SeqSum(_)
SeqSum(s) == IF s = <<>> THEN 0 ELSE Head(s) + SeqSum(Tail(s))

RECURSIVE GCD(_, _)
GCD(a, b) == IF b = 0 THEN a ELSE GCD(b, a % b)

\* Math.round(num / den) chips for den > 0: the nearest whole number, halves up.
MathRound(num, den) == (2 * num + den) \div (2 * den)

IsWinner(p) == p.result = "win" \/ p.result = "blackjack"

\* Mutant: a blackjack weighs like a win.
Weight2Flat(p) == p.bet * 2

\* Twice player.bet * (player.result === "blackjack" ? 1.5 : 1).
Weight2(p) == p.bet * (IF p.result = "blackjack" THEN 3 ELSE 2)

\* The pooled share of one winner, in money units: Math.round of
\* potPool * weight / totalWeight chips (the fraction weight / totalWeight is
\* reduced first, which leaves the quotient as it is).
PooledPayout(p, potPool, totalWeight2) ==
    IF totalWeight2 > 0
    THEN LET g == GCD(Weight2(p), totalWeight2)
         IN  Chips(MathRound(potPool * (Weight2(p) \div g), (totalWeight2 \div g) * Den))
    ELSE 0

\* Mutant: the push bets stay in the pool.
PotPoolKeepsPushes(nextPot, resolvedPlayers) == nextPot

\* potPool after pushes.forEach(potPool -= player.bet)
PotPool(nextPot, resolvedPlayers) ==
    nextPot - SeqSum([i \in 1..Len(resolvedPlayers) |->
                        IF resolvedPlayers[i].result = "push"
                        THEN resolvedPlayers[i].bet ELSE 0])

TotalWeight2(resolvedPlayers) ==
    SeqSum([i \in 1..Len(resolvedPlayers) |->
              IF IsWinner(resolvedPlayers[i]) THEN Weight2(resolvedPlayers[i]) ELSE 0])

\* Mutant: a push is not refunded.
PushRefundNone(p) == 0

\* refund = player.result === "push" ? player.bet : 0
PushRefund(p) == IF p.result = "push" THEN p.bet ELSE 0

\* setPot(totalWeight > 0 ? 0 : potPool)
PotAfter(potPool, totalWeight2) == IF totalWeight2 > 0 THEN 0 ELSE potPool

\* Mutant: a blackjack pays like a win.
BlackjackPayoutEven(bet) == 2 * bet

\* player.bet * 2.5
BlackjackPayout(bet) == (5 * bet) \div 2

IndependentPayout(p) ==
    IF p.result = "push" THEN p.bet
    ELSE IF p.result = "win" THEN p.bet * 2
    ELSE IF p.result = "blackjack" THEN BlackjackPayout(p.bet)
    ELSE 0

\* Mutant: the delta shows what the settlement paid, not the round's net.
CreditDeltaIsPayout(p, amount) ==
    [p EXCEPT !.chips = p.chips + amount,
              !.delta = amount]

Credit(p, amount) ==
    [p EXCEPT !.chips = p.chips + amount,
              !.delta = p.chips + amount - p.roundStartChips]

handleDealerTurn(currentPlayers, currentDealer, currentDeck, nextPot, pooled) ==
    LET drawn == DealerDraw(currentDealer.hand, currentDeck)
        dealerTotal == calculateHand(drawn.hand)
        dealerBlackjack == isBlackjack(drawn.hand)
        dealerBust == dealerTotal > 21
        resolvedPlayers ==
            [i \in 1..Len(currentPlayers) |->
                [currentPlayers[i] EXCEPT
                    !.result = resolveResult(currentPlayers[i], dealerTotal,
                                             dealerBlackjack, dealerBust)]]
        n == Len(resolvedPlayers)
        potPool == PotPool(nextPot, resolvedPlayers)
        totalWeight2 == TotalWeight2(resolvedPlayers)
        finalPlayers ==
            [i \in 1..n |->
                LET p == resolvedPlayers[i]
                    payout == IF IsWinner(p)
                              THEN PooledPayout(p, potPool, totalWeight2) ELSE 0
                IN  Credit(p, PushRefund(p) + payout)]
        payoutPlayers ==
            [i \in 1..n |-> Credit(resolvedPlayers[i],
                                   IndependentPayout(resolvedPlayers[i]))]
    IN  [threw |-> drawn.threw,
         players |-> IF pooled THEN finalPlayers ELSE payoutPlayers,
         dealer |-> [hand |-> drawn.hand, hidden |-> FALSE],
         deck |-> drawn.deck,
         pot |-> IF pooled THEN PotAfter(potPool, totalWeight2) ELSE nextPot]

\* advanceTurn, and the tail of handleDeal: with the state the caller has
\* already set (ps, dl, dk, potNow, ph, msg), move the pointer to the next
\* active player after fromIndex, or run the dealer turn and the settlement.
\* A TypeError in the dealer turn leaves what the caller had set.
advanceTurn(ps, dl, dk, potNow, ph, msg, fromIndex) ==
    LET nextIndex == nextActiveIndex(ps, fromIndex)
        r == handleDealerTurn(ps, dl, dk, potNow, IsPooled)
    IN  IF nextIndex # -1 \/ r.threw
        THEN /\ players' = ps
             /\ dealer' = dl
             /\ deck' = dk
             /\ pot' = potNow
             /\ phase' = ph
             /\ message' = msg
             /\ currentIndex' = (IF nextIndex # -1 THEN nextIndex ELSE currentIndex)
             /\ fault' = (nextIndex = -1)
        ELSE /\ players' = r.players
             /\ dealer' = r.dealer
             /\ deck' = r.deck
             /\ pot' = r.pot
             /\ phase' = "roundEnd"
             /\ message' = "roundEnd"
             /\ currentIndex' = currentIndex
             /\ fault' = FALSE

\* ------------------------------------------------------------- handlers
\* Mutant: the validation forgets the upper limit.
InvalidBetsNoUpper == \E i \in 1..Len(players) : players[i].bet <= 0

InvalidBets == \E i \in 1..Len(players) :
                  players[i].bet <= 0 \/ players[i].bet > players[i].chips

\* Mutant: the settlement of an all-natural deal is handed the pot of the
\* last render, without the bets of this round.
NextPotStale(potIncrease) == pot

\* setPot(prev + potIncrease) and nextPot = isMulti ? pot + potIncrease : pot
NextPot(potIncrease) == IF IsPooled THEN pot + potIncrease ELSE pot

handleDeal ==
    IF InvalidBets
    THEN /\ message' = "invalidBet"
         /\ fault' = FALSE
         /\ UNCHANGED <<config, table>>
    ELSE \E seed \in (IF Len(deck) < LowWater THEN Seeds ELSE {0}) :
         LET potIncrease == SeqSum([i \in 1..Len(players) |-> players[i].bet])
             reservedPlayers ==
                [i \in 1..Len(players) |->
                    [players[i] EXCEPT !.chips = players[i].chips - players[i].bet,
                                       !.roundStartChips = players[i].chips,
                                       !.delta = 0,
                                       !.result = "",
                                       !.hand = <<>>,
                                       !.status = "active"]]
             d == dealInitial(deck, reservedPlayers, seed)
         IN  /\ advanceTurn(d.dealtPlayers, d.nextDealer, d.nextDeck,
                            NextPot(potIncrease), "playing", "chooseAction", -1)
             /\ UNCHANGED <<config, round>>

\* Mutant: the hit is served without looking at the player's status.
handleHitNoGuard ==
    LET player == players[currentIndex + 1]
        draw == drawCard(deck)
        updatedHand == Append(player.hand, draw.card)
        total == calculateHand(updatedHand)
        status == IF total > 21 THEN "bust"
                  ELSE IF total = 21 THEN "stand" ELSE "active"
        updatedPlayers == [players EXCEPT ![currentIndex + 1].hand = updatedHand,
                                          ![currentIndex + 1].status = status]
    IN  IF Throws(updatedHand)
        THEN fault' = TRUE /\ UNCHANGED <<config, table, message>>
        ELSE IF status = "active"
        THEN /\ deck' = draw.next
             /\ players' = updatedPlayers
             /\ fault' = FALSE
             /\ UNCHANGED <<config, phase, dealer, currentIndex, round, pot, message>>
        ELSE /\ advanceTurn(updatedPlayers, dealer, draw.next, pot, phase, message,
                            currentIndex)
             /\ UNCHANGED <<config, round>>

handleHit ==
    IF currentIndex >= Len(players) \/ players[currentIndex + 1].status # "active"
    THEN fault' = FALSE /\ UNCHANGED <<config, table, message>>
    ELSE LET player == players[currentIndex + 1]
             draw == drawCard(deck)
             updatedHand == Append(player.hand, draw.card)
             total == calculateHand(updatedHand)
             status == IF total > 21 THEN "bust"
                       ELSE IF total = 21 THEN "stand" ELSE "active"
             updatedPlayers == [players EXCEPT ![currentIndex + 1].hand = updatedHand,
                                               ![currentIndex + 1].status = status]
         IN  IF Throws(updatedHand)
             THEN fault' = TRUE /\ UNCHANGED <<config, table, message>>
             ELSE IF status = "active"
             THEN /\ deck' = draw.next
                  /\ players' = updatedPlayers
                  /\ fault' = FALSE
                  /\ UNCHANGED <<config, phase, dealer, currentIndex, round, pot, message>>
             ELSE /\ advanceTurn(updatedPlayers, dealer, draw.next, pot, phase, message,
                                 currentIndex)
                  /\ UNCHANGED <<config, round>>

\* Mutant: standing hands the bet back to the player.
handleStandRefunds ==
    LET updatedPlayers ==
            [i \in 1..Len(players) |->
                IF i = currentIndex + 1
                THEN [players[i] EXCEPT !.status = "stand", !.chips = @ + players[i].bet]
                ELSE players[i]]
    IN  /\ advanceTurn(updatedPlayers, dealer, deck, pot, phase, message, currentIndex)
        /\ UNCHANGED <<config, round>>

handleStand ==
    LET updatedPlayers ==
            [i \in 1..Len(players) |->
                IF i = currentIndex + 1 THEN [players[i] EXCEPT !.status = "stand"]
                ELSE players[i]]
    IN  /\ advanceTurn(updatedPlayers, dealer, deck, pot, phase, message, currentIndex)
        /\ UNCHANGED <<config, round>>

\* Mutant: the reset forgets the bets.
handleNextRoundKeepsBets ==
    /\ players' = [i \in 1..Len(players) |->
                      [players[i] EXCEPT !.hand = <<>>, !.status = "idle",
                                         !.result = "", !.delta = 0]]
    /\ dealer' = emptyDealer
    /\ phase' = "betting"
    /\ round' = round + 1
    /\ message' = "placeBets"
    /\ fault' = FALSE
    /\ UNCHANGED <<config, deck, currentIndex, pot>>

\* Mutant: the reset empties the pot.
handleNextRoundClearsPot ==
    /\ players' = [i \in 1..Len(players) |->
                      [players[i] EXCEPT !.bet = 0, !.hand = <<>>, !.status = "idle",
                                         !.result = "", !.delta = 0]]
    /\ dealer' = emptyDealer
    /\ phase' = "betting"
    /\ round' = round + 1
    /\ pot' = 0
    /\ message' = "placeBets"
    /\ fault' = FALSE
    /\ UNCHANGED <<config, deck, currentIndex>>

handleNextRound ==
    /\ players' = [i \in 1..Len(players) |->
                      [players[i] EXCEPT !.bet = 0, !.hand = <<>>, !.status = "idle",
                                         !.result = "", !.delta = 0]]
    /\ dealer' = emptyDealer
    /\ phase' = "betting"
    /\ round' = round + 1
    /\ message' = "placeBets"
    /\ fault' = FALSE
    /\ UNCHANGED <<config, deck, currentIndex, pot>>

\* Mutant: placing a bet already takes it from the chips.
SetBetDebits(index, nextBet) ==
    /\ players' = [players EXCEPT ![index + 1].bet = nextBet,
                                  ![index + 1].chips = @ - nextBet]
    /\ fault' = FALSE
    /\ UNCHANGED <<config, phase, dealer, deck, currentIndex, round, pot, message>>

SetBet(index, nextBet) ==
    /\ players' = [players EXCEPT ![index + 1].bet = nextBet]
    /\ fault' = FALSE
    /\ UNCHANGED <<config, phase, dealer, deck, currentIndex, round, pot, message>>

Min(a, b) == IF a < b THEN a ELSE b
Max(a, b) == IF a > b THEN a ELSE b

handleBetAdd(index, amount) ==
    SetBet(index, Min(players[index + 1].chips, players[index + 1].bet + amount))

handleBetClear(index) == SetBet(index, 0)

handleBetAllIn(index) == SetBet(index, players[index + 1].chips)

\* Number(value) for a typed count of half chips, never NaN for a number field.
handleBetChange(index, halves) == SetBet(index, Max(0, halves * (Den \div 2)))

handleLobbyStart ==
    /\ players' = buildPlayers(playerCount, Chips(STARTING_CHIPS))
    /\ dealer' = emptyDealer
    /\ phase' = "betting"
    /\ screen' = "table"
    /\ round' = 1
    /\ pot' = 0
    /\ message' = "placeBets"
    /\ fault' = FALSE
    /\ UNCHANGED <<variant, mode, playerCount, startingChips, potMode, deck, currentIndex>>

setPlayerCount(count) ==
    /\ playerCount' = count
    /\ fault' = FALSE
    /\ UNCHANGED <<variant, screen, mode, startingChips, potMode, table, message>>

handleModeChange(value) ==
    /\ mode' = value
    /\ phase' = "setup"
    /\ dealer' = emptyDealer
    /\ pot' = 0
    /\ message' = ""
    /\ IF value = "single"
       THEN /\ playerCount' = 1
            /\ players' = buildPlayers(1, startingChips)
       ELSE /\ playerCount' = Max(2, playerCount)
            /\ players' = buildPlayers(Max(2, playerCount), startingChips)
    /\ fault' = FALSE
    /\ UNCHANGED <<variant, screen, startingChips, potMode, deck, currentIndex, round>>

handleSetupApply ==
    /\ players' = buildPlayers(IF mode = "single" THEN 1 ELSE playerCount, startingChips)
    /\ phase' = "betting"
    /\ round' = 1
    /\ pot' = 0
    /\ message' = "placeBets"
    /\ fault' = FALSE
    /\ UNCHANGED <<config, dealer, deck, currentIndex>>

\* onChange of the seat-count field
changePlayerCount(value) ==
    LET nextCount == Min(4, Max(2, value))
    IN  /\ playerCount' = nextCount
        /\ players' = buildPlayers(nextCount, startingChips)
        /\ fault' = FALSE
        /\ UNCHANGED <<variant, screen, mode, startingChips, potMode, phase, dealer,
                       deck, currentIndex, round, pot, message>>

\* onChange of the starting-chips field
changeStartingChips(value) ==
    /\ startingChips' = Chips(Max(100, value))
    /\ fault' = FALSE
    /\ UNCHANGED <<variant, screen, mode, playerCount, potMode, table, message>>

\* onChange of the pooled-pot checkbox
changePotMode(checked) ==
    /\ potMode' = checked
    /\ fault' = FALSE
    /\ UNCHANGED <<variant, screen, mode, playerCount, startingChips, table, message>>

\* ---------------------------------------------- what the page lets happen
TableShown == variant = "settings" \/ screen = "table"
Seats == 0..(Len(players) - 1)

PickSeats == \E count \in SeatPicks :
    variant = "lobby" /\ screen = "lobby" /\ setPlayerCount(count)

LobbyStart == variant = "lobby" /\ screen = "lobby" /\ handleLobbyStart

\* A seat places its wager with one press of a chip button.
BetAdd == \E index \in Seats, amount \in ChipPresses :
    /\ variant = "lobby" /\ TableShown /\ phase = "betting"
    /\ players[index + 1].bet = 0
    /\ handleBetAdd(index, Chips(amount))

BetClear == \E index \in Seats :
    variant = "lobby" /\ TableShown /\ phase = "betting" /\ handleBetClear(index)

BetAllIn == \E index \in Seats :
    variant = "lobby" /\ TableShown /\ phase = "betting" /\ handleBetAllIn(index)

BetChange == \E index \in Seats, halves \in TypedBets :
    variant = "settings" /\ phase = "betting" /\ handleBetChange(index, halves)

Deal == TableShown /\ phase = "betting" /\ handleDeal

Hit == TableShown /\ phase = "playing" /\ handleHit

Stand == TableShown /\ phase = "playing" /\ handleStand

NextRound ==
    /\ TableShown /\ phase = "roundEnd"
    /\ round < (IF variant = "lobby" THEN MaxRound ELSE MaxRoundSettings)
    /\ handleNextRound

ModeChange == \E value \in {"single", "multi"} :
    variant = "settings" /\ handleModeChange(value)

SetupApply == variant = "settings" /\ handleSetupApply

ChangePlayerCount == \E value \in TypedSeatCounts :
    variant = "settings" /\ mode = "multi" /\ changePlayerCount(value)

ChangeStartingChips == \E value \in TypedStartingChips :
    variant = "settings" /\ changeStartingChips(value)

ChangePotMode == \E checked \in BOOLEAN :
    variant = "settings" /\ mode = "multi" /\ changePotMode(checked)

Next ==
    \/ PickSeats
    \/ LobbyStart
    \/ BetAdd
    \/ BetClear
    \/ BetAllIn
    \/ BetChange
    \/ Deal
    \/ Hit
    \/ Stand
    \/ NextRound
    \/ ModeChange
    \/ SetupApply
    \/ ChangePlayerCount
    \/ ChangeStartingChips
    \/ ChangePotMode

Spec == Init /\ [][Next]_vars

\* ------------------------------------------------------- the full table
\* Three or four seats of the lobby variant; every seat wagers one 25 chip.
InitFullTable == Init /\ variant = "lobby"

FullPickSeats == \E count \in FullTablePicks : screen = "lobby" /\ setPlayerCount(count)

FullLobbyStart == screen = "lobby" /\ playerCount \in FullTablePicks /\ handleLobbyStart

FullBetAdd == \E index \in Seats :
    /\ TableShown /\ phase = "betting"
    /\ players[index + 1].bet = 0
    /\ handleBetAdd(index, Chips(25))

FullNextRound ==
    TableShown /\ phase = "roundEnd" /\ round < MaxRoundFullTable /\ handleNextRound

NextFullTable ==
    \/ FullPickSeats
    \/ FullLobbyStart
    \/ FullBetAdd
    \/ Deal
    \/ Hit
    \/ Stand
    \/ FullNextRound

SpecFullTable == InitFullTable /\ [][NextFullTable]_vars

\* ------------------------------------------------- the handlers as called
\* The table of the lobby variant with handleStand and handleHit also invoked
\* while the page shows no Hit / Stand button (the phase is betting or
\* roundEnd), and handleNextRound while it shows no Next Round button (the
\* phase is betting or playing).  A repeated settlement can pay without end; the calls stop once
\* a seat holds more than twice the starting chips.
StandCalled ==
    /\ TableShown /\ phase # "playing"
    /\ \A i \in 1..Len(players) : players[i].chips <= 2 * startingChips
    /\ handleStand

HitCalled == TableShown /\ phase # "playing" /\ handleHit

NextRoundCalled ==
    TableShown /\ phase # "roundEnd" /\ round < MaxRound /\ handleNextRound

NextHandlers ==
    \/ PickSeats
    \/ LobbyStart
    \/ FullBetAdd
    \/ Deal
    \/ Hit
    \/ Stand
    \/ NextRound
    \/ StandCalled
    \/ HitCalled
    \/ NextRoundCalled

SpecHandlers == InitFullTable /\ [][NextHandlers]_vars

\* ------------------------------------------- the settlement as a function
\* handleDealerTurn applied to the hands a solo round can end with: the
\* player's finished hand, the dealer's finished hand, one 25 chip at stake.
PlayerCards == {1, 5, 6, 9, 10, 13}
DealerCards == {14, 18, 19, 20, 23, 26}

\* Two cards, or three of which the first two left the hand in play.
FinishedHands(cards, stopAt) ==
    {h \in cards \X cards : h[1] # h[2]}
    \cup {h \in cards \X cards \X cards :
            /\ h[1] # h[2] /\ h[1] # h[3] /\ h[2] # h[3]
            /\ calculateHand(SubSeq(h, 1, 2)) < stopAt}

\* The status dealInitial and handleHit leave on a hand nobody acts on any more.
StatusOf(hand) ==
    IF isBlackjack(hand) THEN "blackjack"
    ELSE IF calculateHand(hand) > 21 THEN "bust"
    ELSE "stand"

InitResolve ==
    /\ variant = "lobby" /\ screen = "table" /\ mode = "none"
    /\ playerCount = 1 /\ startingChips = Chips(STARTING_CHIPS) /\ potMode = FALSE
    /\ phase = "playing"
    /\ \E h \in FinishedHands(PlayerCards, 21) :
          players = <<[chips |-> Chips(STARTING_CHIPS - 25),
                       roundStartChips |-> Chips(STARTING_CHIPS),
                       bet |-> Chips(25), hand |-> h, status |-> StatusOf(h),
                       result |-> "", delta |-> 0]>>
    /\ \E d \in FinishedHands(DealerCards, DealerStandsOn) :
          calculateHand(d) >= DealerStandsOn /\ dealer = [hand |-> d, hidden |-> TRUE]
    /\ deck = <<>>
    /\ currentIndex = 0
    /\ message = "chooseAction"
    /\ round = 1
    /\ pot = 0
    /\ fault = FALSE

Resolve ==
    /\ phase = "playing"
    /\ advanceTurn(players, dealer, deck, pot, phase, message, currentIndex)
    /\ UNCHANGED <<config, round>>

NextResolve == Resolve

SpecResolve == InitResolve /\ [][NextResolve]_vars

\* ------------------------------------------- the hand total as a function
\* calculateHand applied by handleHit (and by the dealer turn that follows a
\* finished hand) to the hands that grow out of every deck of MaxHandLen
\* different cards among three aces, 2, 8, 9, Q and K.
HandCards == {1, 14, 27, 2, 8, 9, 12, 13}

HandDecks ==
    {d \in [1..MaxHandLen -> HandCards] : \A a, b \in 1..MaxHandLen : a # b => d[a] # d[b]}

InitHand ==
    /\ variant = "lobby" /\ screen = "table" /\ mode = "none"
    /\ playerCount = 1 /\ startingChips = Chips(STARTING_CHIPS) /\ potMode = FALSE
    /\ phase = "playing"
    /\ players = <<[chips |-> Chips(STARTING_CHIPS - 25),
                    roundStartChips |-> Chips(STARTING_CHIPS),
                    bet |-> Chips(25), hand |-> <<>>, status |-> "active",
                    result |-> "", delta |-> 0]>>
    /\ dealer = emptyDealer
    /\ deck \in HandDecks
    /\ currentIndex = 0
    /\ message = "chooseAction"
    /\ round = 1
    /\ pot = 0
    /\ fault = FALSE

NextHand == Hit

SpecHand == InitHand /\ [][NextHand]_vars

\* ================================================================ claims
\* A step that settles a round: the dealer turn ran and chips were paid.  It
\* is the tail of a deal in which nobody was left to act, of a hit or of a
\* stand.
SettleStep == phase # "roundEnd" /\ phase' = "roundEnd"

\* The wagers on the table.
BetTotal == SeqSum([i \in 1..Len(players) |-> players[i].bet])

\* What seat i holds once its wager is debited, before the settlement credits
\* it: a settling deal debits and credits in the same step.
BaseChips(i) ==
    IF phase = "betting" THEN players[i].chips - players[i].bet ELSE players[i].chips

\* The pot the settlement starts from.
PotIn == IF phase = "betting" /\ IsPooled THEN pot + BetTotal ELSE pot

\* What the settlement of this step adds to seat i.
Credited(i) == players'[i].chips - BaseChips(i)

\* ---------------------------------------------------------------- C1
\* C1: a deal requested while some bet is <= 0 or above its owner's chips is
\* rejected: it shows the invalid-bet message and changes no player, no chip
\* balance, no bet, no card, not the deck, the pot, the turn pointer, the
\* round counter nor the phase.
C1_RejectedDealChangesNothing ==
    [][((\E i \in 1..Len(players) :
            players[i].bet <= 0 \/ players[i].bet > players[i].chips) /\ Deal)
       => /\ message' = "invalidBet"
          /\ phase' = "betting"
          /\ UNCHANGED <<players, dealer, deck, pot, currentIndex, round, config>>]_vars

\* C1 witness: a deal was rejected because a bet exceeds its owner's chips.
C1_Witness ==
    /\ phase = "betting" /\ message = "invalidBet"
    /\ \E i \in 1..Len(players) : players[i].bet > players[i].chips

\* ---------------------------------------------------------------- C2
\* C2 (as claimed): no player's chip balance is ever below zero.
C2_ChipsNeverNegative == \A i \in 1..Len(players) : players[i].chips >= 0

\* ---------------------------------------------------------------- C3
\* C3 (as claimed): no handler ever draws from an empty deck, so no handler
\* ends in the TypeError that reading the value of the undefined card raises.
C3_NeverDrawsFromEmptyDeck == ~fault

\* ---------------------------------------------------------------- C4
\* The best total of a hand: every ace counts 1 or 11, the highest total not
\* above 21 if there is one, else all aces as 1.
BestTotal(hand) ==
    LET hard == SeqSum([i \in 1..Len(hand) |->
                          IF IsAce(hand[i]) THEN 1 ELSE CardValue(hand[i])])
        good == {t \in {hard + 10 * k : k \in 0..CountAces(hand)} : t <= 21}
    IN  IF good = {} THEN hard ELSE CHOOSE t \in good : \A u \in good : u <= t

Natural(hand) == Len(hand) = 2 /\ BestTotal(hand) = 21

\* The result the claimed precedence gives a player against a dealer hand.
ClaimedResult(p, dealerHand) ==
    LET pt == BestTotal(p.hand)
        dt == BestTotal(dealerHand)
    IN  CASE p.status = "bust" -> "lose"
          [] p.status # "bust" /\ Natural(p.hand) /\ Natural(dealerHand) -> "push"
          [] p.status # "bust" /\ ~Natural(p.hand) /\ Natural(dealerHand) -> "lose"
          [] p.status # "bust" /\ Natural(p.hand) /\ ~Natural(dealerHand) -> "blackjack"
          [] p.status # "bust" /\ ~Natural(p.hand) /\ ~Natural(dealerHand) /\ dt > 21 -> "win"
          [] p.status # "bust" /\ ~Natural(p.hand) /\ ~Natural(dealerHand) /\ dt <= 21
             /\ pt > dt -> "win"
          [] p.status # "bust" /\ ~Natural(p.hand) /\ ~Natural(dealerHand) /\ dt <= 21
             /\ pt < dt -> "lose"
          [] p.status # "bust" /\ ~Natural(p.hand) /\ ~Natural(dealerHand) /\ dt <= 21
             /\ pt = dt -> "push"

\* C4: a settled player's result follows the precedence: bust loses whatever
\* the dealer holds; else two naturals push; else a dealer natural beats any
\* other hand (a three-card 21 included); else a player natural is a
\* blackjack; else a dealer bust is a win; else the higher total wins and equal
\* totals push.
C4_ResultPrecedence ==
    phase = "roundEnd" =>
        \A i \in 1..Len(players) :
            players[i].result = ClaimedResult(players[i], dealer.hand)

\* C4 witness: a three-card 21 was settled as a loss against the dealer's
\* natural.
C4_Witness ==
    /\ phase = "roundEnd"
    /\ \E i \in 1..Len(players) :
          /\ Len(players[i].hand) = 3 /\ BestTotal(players[i].hand) = 21
          /\ players[i].result = "lose"
    /\ Natural(dealer.hand)

\* ---------------------------------------------------------------- C5
\* C5: a settlement with independent payout credits each player, on top of
\* the chips the bet was debited from, the bet for a push, twice the bet for a
\* win, 2.5 times the bet for a blackjack and nothing for a loss; against the
\* balance held before the deal that is 0, +bet, +1.5 bet and -bet.
C5_IndependentPayout ==
    [][(SettleStep /\ ~IsPooled) =>
        \A i \in 1..Len(players') :
            LET q == players'[i]
                net == q.chips - q.roundStartChips
            IN  /\ q.result \in {"push", "win", "blackjack", "lose"}
                /\ q.result = "push" => Credited(i) = q.bet /\ net = 0
                /\ q.result = "win" => Credited(i) = 2 * q.bet /\ net = q.bet
                /\ q.result = "blackjack" =>
                      2 * Credited(i) = 5 * q.bet /\ 2 * net = 3 * q.bet
                /\ q.result = "lose" => Credited(i) = 0 /\ net = -q.bet]_vars

\* C5 witness: an independent settlement has paid a blackjack 2.5 times a
\* positive bet.
C5_Witness ==
    /\ phase = "roundEnd" /\ ~IsPooled
    /\ \E i \in 1..Len(players) :
          /\ players[i].result = "blackjack" /\ players[i].bet > 0
          /\ 2 * (players[i].chips - players[i].roundStartChips) = 3 * players[i].bet

\* ---------------------------------------------------------------- C6
\* The winners of the settlement of this step and their weights, doubled:
\* twice the bet for a win, three times the bet for a blackjack.
WinnersAfter == {i \in 1..Len(players') : players'[i].result \in {"win", "blackjack"}}
PushersAfter == {i \in 1..Len(players') : players'[i].result = "push"}

ClaimedWeight2(i) ==
    IF players'[i].result = "blackjack" THEN 3 * players'[i].bet ELSE 2 * players'[i].bet

ClaimedTotalWeight2 ==
    SeqSum([i \in 1..Len(players') |-> IF i \in WinnersAfter THEN ClaimedWeight2(i) ELSE 0])

\* The pot after the push bets are taken out of it.
RemainingPot ==
    PotIn - SeqSum([i \in 1..Len(players') |->
                      IF i \in PushersAfter THEN players'[i].bet ELSE 0])

\* amount (money units) is x rounded to the nearest whole chip, halves up,
\* for x = remaining * w / tw chips, remaining in money units and tw > 0:
\* amount is k chips with k - 1/2 <= x < k + 1/2.
IsRoundedShare(amount, remaining, w, tw) ==
    LET g == GCD(w, tw)
        wr == w \div g
        twr == tw \div g
        k == amount \div Den
    IN  /\ amount % Den = 0
        /\ (2 * k - 1) * twr * Den <= 2 * remaining * wr
        /\ 2 * remaining * wr < (2 * k + 1) * twr * Den

SetSum(f, S) == SeqSum([i \in 1..Len(players') |-> IF i \in S THEN f[i] ELSE 0])

CreditedToWinners == SetSum([i \in 1..Len(players') |-> Credited(i)], WinnersAfter)

\* C7: a pooled settlement refunds every pushing player exactly their own
\* bet, which puts them back at the balance held before the deal, and what the
\* winners share is the pot less the push bets: their credits add up to it,
\* within the half chip each share may be rounded by.
C7_PooledPushRefund ==
    [][(SettleStep /\ IsPooled) =>
        /\ \A i \in PushersAfter :
              /\ Credited(i) = players'[i].bet
              /\ players'[i].chips = players'[i].roundStartChips
        /\ ClaimedTotalWeight2 > 0 =>
              /\ 2 * (CreditedToWinners - RemainingPot) <= Cardinality(WinnersAfter) * Den
              /\ 2 * (RemainingPot - CreditedToWinners) <= Cardinality(WinnersAfter) * Den]_vars

\* C7 witness: a pooled settlement has refunded a push and paid a winner the
\* rest of the pot.
C7_Witness ==
    /\ phase = "roundEnd" /\ IsPooled
    /\ \E i, j \in 1..Len(players) :
          /\ players[i].result = "push" /\ players[i].bet > 0
          /\ players[i].chips = players[i].roundStartChips
          /\ players[j].result = "win" /\ players[j].bet > 0
          /\ players[j].chips > players[j].roundStartChips - players[j].bet

\* ---------------------------------------------------------------- C8
\* handleNextRound has run.
NextRoundStep == phase = "roundEnd" /\ phase' = "betting" /\ round' = round + 1

\* A deal has left somebody to act.
DealToPlayingStep == phase = "betting" /\ phase' = "playing"

\* C8 (as claimed): after a pooled settlement the pot is 0 if some player has
\* result win or blackjack; with no winner the pot keeps the pot less the push
\* refunds and no player is credited anything but a push refund; nextRound
\* carries the pot unchanged and the next successful pooled deal adds the bets
\* of its round on top of it.
C8_PotAfterSettlement ==
    [][/\ (SettleStep /\ IsPooled /\ WinnersAfter # {}) => pot' = 0
       /\ (SettleStep /\ IsPooled /\ WinnersAfter = {}) =>
              /\ pot' = RemainingPot
              /\ \A i \in 1..Len(players') :
                    Credited(i) = (IF i \in PushersAfter THEN players'[i].bet ELSE 0)
       /\ NextRoundStep => pot' = pot
       /\ (DealToPlayingStep /\ IsPooled) => pot' = pot + BetTotal]_vars

\* ---------------------------------------------------------------- C9
\* C9 (as claimed): the sole winner of a pooled settlement is credited the
\* whole pot that is left after the push refunds, and the pot ends at 0.
C9_SoleWinnerTakesPot ==
    [][(SettleStep /\ IsPooled /\ Cardinality(WinnersAfter) = 1) =>
        /\ \A i \in WinnersAfter : Credited(i) = RemainingPot
        /\ pot' = 0]_vars

\* C9 (amended): the sole winner of a pooled settlement is credited the pot
\* that is left after the push refunds rounded to the nearest whole chip, which
\* is the whole of it when it is a whole number of chips, and the pot ends at 0.
C9_SoleWinnerTakesRoundedPot ==
    [][(SettleStep /\ IsPooled /\ Cardinality(WinnersAfter) = 1) =>
        /\ \A i \in WinnersAfter :
              /\ IsRoundedShare(Credited(i), RemainingPot, 1, 1)
              /\ RemainingPot % Den = 0 => Credited(i) = RemainingPot
        /\ pot' = 0]_vars

\* C9 witness: a pooled round has ended with one winner next to a refunded
\* push, and the pot is empty.
C9_Witness ==
    /\ phase = "roundEnd" /\ IsPooled /\ pot = 0
    /\ Cardinality({i \in 1..Len(players) : IsWinner(players[i])}) = 1
    /\ \E i, j \in 1..Len(players) :
          /\ IsWinner(players[i]) /\ players[i].bet > 0
          /\ players[i].chips > players[i].roundStartChips
          /\ players[j].result = "push" /\ players[j].bet > 0
          /\ players[j].chips = players[j].roundStartChips

\* ---------------------------------------------------------------- C10
\* A deal has been accepted: only handleDeal leaves the betting phase for
\* playing or roundEnd.
DealStep == phase = "betting" /\ phase' \in {"playing", "roundEnd"}

\* The cards left once two cards went to every seat and to the dealer, out
\* of the deck at hand or of the fresh one that replaces a short deck.
DeckAfterDeal ==
    (IF Len(deck) < LowWater THEN DeckSize ELSE Len(deck)) - (2 * Len(players) + 2)

DealtAsClaimed ==
    /\ \A i \in 1..Len(players') :
          /\ players'[i].chips = players[i].chips - players[i].bet
          /\ players'[i].bet = players[i].bet
          /\ Len(players'[i].hand) = 2
    /\ Len(players') = Len(players)
    /\ Len(dealer'.hand) = 2
    /\ Len(deck') = DeckAfterDeal
    /\ dealer'.hidden

\* C10 (as claimed): every accepted deal debits exactly the bet from each
\* player's chips, leaves the bets as they are, gives every player and the
\* dealer exactly two cards, takes 2 x seats + 2 cards off the (possibly
\* replaced) deck and hides the dealer's card, which stays hidden for as long
\* as the phase is playing.
C10_DealEffects ==
    [][/\ DealStep => DealtAsClaimed
       /\ phase' = "playing" => dealer'.hidden]_vars

\* C10 (amended): an accepted deal that leaves a player to act does all of
\* the above; an accepted deal in which every player is dealt a natural gives
\* every player two cards and keeps the bets, but runs the dealer turn and the
\* settlement in the same step: the dealer's hand is shown and may have grown,
\* the deck may have lost more cards, and the chips are already paid.  The
\* dealer's card is hidden whenever the phase is playing.
C10_DealEffectsWhenSomeoneActs ==
    [][/\ DealToPlayingStep => DealtAsClaimed
       /\ (DealStep /\ phase' = "roundEnd") =>
             /\ \A i \in 1..Len(players') :
                   /\ players'[i].status = "blackjack"
                   /\ players'[i].bet = players[i].bet
                   /\ Len(players'[i].hand) = 2
                   /\ players'[i].chips >= players[i].chips - players[i].bet
             /\ Len(dealer'.hand) >= 2
             /\ Len(deck') = DeckAfterDeal - (Len(dealer'.hand) - 2)
             /\ ~dealer'.hidden
       /\ phase' = "playing" => dealer'.hidden]_vars

\* C10 witness: the first deal of a table has left two cards in every hand,
\* the bets debited and the dealer's card hidden.
C10_Witness ==
    /\ phase = "playing" /\ dealer.hidden /\ Len(dealer.hand) = 2
    /\ Len(players) > 1
    /\ Len(deck) = DeckSize - (2 * Len(players) + 2)
    /\ \A i \in 1..Len(players) :
          /\ Len(players[i].hand) = 2 /\ players[i].bet > 0
          /\ players[i].chips = players[i].roundStartChips - players[i].bet

\* ---------------------------------------------------------------- C11
\* The decks a deal can draw from: the deck at hand, or a freshly shuffled
\* one when fewer than LowWater cards are left.
PreparedDecks ==
    IF Len(deck) < LowWater THEN {shuffle(createDeck, seed) : seed \in Seeds} ELSE {deck}

\* The k-th card drawn from deck d: the deck is drawn from its end.
Drawn(d, k) == d[Len(d) - k + 1]

\* C11: an accepted deal is round-robin from the top of the deck: with n
\* players and c1, c2, ... the cards in draw order, player i holds c_i and then
\* c_(n+1+i), the dealer's first two cards are c_(n+1) and c_(2n+2), and the
\* cards below those 2n+2 are still in the deck in their order.
C11_RoundRobinDeal ==
    [][DealStep =>
        \E d \in PreparedDecks :
            LET n == Len(players)
            IN  /\ \A i \in 1..n :
                      players'[i].hand = <<Drawn(d, i), Drawn(d, n + 1 + i)>>
                /\ SubSeq(dealer'.hand, 1, 2) = <<Drawn(d, n + 1), Drawn(d, 2 * n + 2)>>
                /\ \A k \in 1..Len(deck') : deck'[k] = d[k]]_vars

\* C11 witness: the first deal of a two-seat table has served seat 1, seat 2
\* and the dealer in turn, twice, from the top of the initial deck.
C11_Witness ==
    /\ phase = "playing" /\ Len(players) = 2 /\ Len(deck) = DeckSize - 6
    /\ \E seed \in Seeds :
          LET d == shuffle(createDeck, seed)
          IN  /\ players[1].hand = <<d[52], d[49]>>
              /\ players[2].hand = <<d[51], d[48]>>
              /\ dealer.hand = <<d[50], d[47]>>
              /\ deck = SubSeq(d, 1, 46)

\* ---------------------------------------------------------------- C12
\* C12 (as claimed): whenever the phase is playing, the turn pointer is on a
\* player whose status is active and no player before the pointer is active.
C12_PointerOnLowestActive ==
    phase = "playing" =>
        /\ currentIndex \in 0..(Len(players) - 1)
        /\ players[currentIndex + 1].status = "active"
        /\ \A j \in 1..currentIndex : players[j].status # "active"

\* ---------------------------------------------------------------- C13
\* The acting player hits: the pointer is on an active player while the
\* round is being played, and the step is one of handleHit.
ActingHit ==
    /\ phase = "playing"
    /\ currentIndex \in 0..(Len(players) - 1)
    /\ players[currentIndex + 1].status = "active"
    /\ Hit

\* C13 (as claimed): a hit by the acting player appends the top card of the
\* deck to that player's hand and changes no other hand; a new total above 21
\* makes the status bust, a new total of 21 makes it stand, and otherwise the
\* status stays active and the turn pointer does not move.
C13_HitEffects ==
    [][ActingHit =>
        LET p == currentIndex + 1
            total == BestTotal(players'[p].hand)
        IN  /\ Len(deck) > 0
            /\ Len(players') = Len(players)
            /\ players'[p].hand = Append(players[p].hand, deck[Len(deck)])
            /\ \A j \in 1..Len(players) : j # p => players'[j].hand = players[j].hand
            /\ total > 21 => players'[p].status = "bust"
            /\ total = 21 => players'[p].status = "stand"
            /\ total < 21 =>
                  /\ players'[p].status = "active"
                  /\ currentIndex' = currentIndex
                  /\ phase' = "playing"
                  /\ deck' = SubSeq(deck, 1, Len(deck) - 1)]_vars

\* ---------------------------------------------------------------- C14
\* The pointer is on an active player while the round is being played.
Acting ==
    /\ phase = "playing"
    /\ currentIndex \in 0..(Len(players) - 1)
    /\ players[currentIndex + 1].status = "active"

\* The seats after the pointer that are still to act (1-based).
LaterActive == {j \in (currentIndex + 2)..Len(players) : players[j].status = "active"}

\* What follows the end of the acting player's turn: the pointer goes to the
\* first seat after it that is still to act, or the dealer plays and the round
\* is settled in the same step.
TurnPassesOn ==
    IF LaterActive # {}
    THEN /\ currentIndex' + 1 \in LaterActive
         /\ \A j \in LaterActive : currentIndex' + 1 <= j
         /\ phase' = "playing"
         /\ dealer' = dealer
    ELSE /\ phase' = "roundEnd"
         /\ ~dealer'.hidden
         /\ \A i \in 1..Len(players') :
               players'[i].result \in {"win", "lose", "push", "blackjack"}

\* C14 (as claimed): a stand by the acting player sets that player's status
\* to stand and changes no player's hand nor, but for what the dealer draws
\* when the round is settled, the deck; after a stand, a bust or a 21 reached
\* by a hit the pointer moves to the next active player at a strictly greater
\* index or, if there is none, the dealer turn and the settlement run in the
\* same step; while a round is played the pointer never moves back.
C14_StandAndAdvance ==
    [][/\ (Acting /\ Stand) =>
             /\ Len(players') = Len(players)
             /\ players'[currentIndex + 1].status = "stand"
             /\ \A j \in 1..Len(players) :
                   /\ players'[j].hand = players[j].hand
                   /\ j # currentIndex + 1 => players'[j].status = players[j].status
             /\ phase' = "playing" => deck' = deck
             /\ Len(deck') = Len(deck) - (Len(dealer'.hand) - Len(dealer.hand))
             /\ TurnPassesOn
       /\ (ActingHit /\ Len(players') = Len(players)
             /\ players'[currentIndex + 1].status # "active") => TurnPassesOn
       /\ (phase = "playing" /\ phase' = "playing") => currentIndex' >= currentIndex]_vars

\* ---------------------------------------------------------------- C15
\* Every hand of the deal of this step is a natural.
AllDealtNaturals == \A i \in 1..Len(players') : Natural(players'[i].hand)

\* C15: an accepted deal ends in roundEnd, with the dealer's hand shown and
\* every result set, exactly when every player was dealt a natural, and a
\* pooled settlement of that deal pays out of the carried pot plus the bets of
\* this round: against a dealer natural every player is refunded their bet
\* and the carried pot is kept, otherwise the players share, within the half
\* chip each share may be rounded by, the carried pot plus the bets and the
\* pot ends at 0.
C15_AllNaturalDeal ==
    [][DealStep =>
        /\ AllDealtNaturals <=> phase' = "roundEnd"
        /\ AllDealtNaturals =>
              /\ ~dealer'.hidden
              /\ \A i \in 1..Len(players') : players'[i].status = "blackjack"
              /\ IF Natural(dealer'.hand)
                 THEN \A i \in 1..Len(players') : players'[i].result = "push"
                 ELSE \A i \in 1..Len(players') : players'[i].result = "blackjack"
              /\ (IsPooled /\ Natural(dealer'.hand)) =>
                    /\ pot' = pot
                    /\ \A i \in 1..Len(players') : players'[i].chips = players[i].chips
              /\ (IsPooled /\ ~Natural(dealer'.hand)) =>
                    /\ pot' = 0
                    /\ 2 * (CreditedToWinners - (pot + BetTotal)) <= Len(players) * Den
                    /\ 2 * ((pot + BetTotal) - CreditedToWinners) <= Len(players) * Den]_vars

\* C15 witness: a pooled deal gave both players a natural and was settled at
\* once, each player ending above the balance held before the deal.
C15_Witness ==
    /\ phase = "roundEnd" /\ IsPooled /\ Len(players) = 2 /\ pot = 0
    /\ \A i \in 1..Len(players) :
          /\ Len(players[i].hand) = 2 /\ players[i].status = "blackjack"
          /\ players[i].result = "blackjack" /\ players[i].bet > 0
    /\ \E i \in 1..Len(players) : players[i].chips > players[i].roundStartChips

\* ---------------------------------------------------------------- C16
\* The first k cards of a hand.
Prefix(hand, k) == SubSeq(hand, 1, k)

\* C16: the settlement shows the dealer's hand and the dealer has drawn, one
\* card at a time from the top of the deck, exactly while the total was below
\* 17: in every roundEnd state the hand is shown and totals 17 or more, every
\* shorter hand the dealer held from the two dealt cards on totalled less than
\* 17, so that a dealer whose two cards already make 17 or more (a soft 17
\* included) has drawn nothing.
C16_DealerDrawsBelow17 ==
    [][/\ phase' = "roundEnd" =>
             /\ ~dealer'.hidden
             /\ Len(dealer'.hand) >= 2
             /\ BestTotal(dealer'.hand) >= 17
             /\ \A k \in 2..(Len(dealer'.hand) - 1) : BestTotal(Prefix(dealer'.hand, k)) < 17
       /\ (SettleStep /\ phase = "playing") =>
             LET drew == Len(dealer'.hand) - Len(dealer.hand)
                 hit == Len(deck) - Len(deck') - drew
             IN  /\ Prefix(dealer'.hand, Len(dealer.hand)) = dealer.hand
                 /\ deck' = Prefix(deck, Len(deck'))
                 /\ hit \in {0, 1}
                 /\ \A k \in 1..drew :
                       dealer'.hand[Len(dealer.hand) + k] = Drawn(deck, hit + k)]_vars

\* C16 witness: a settled dealer stood on a soft 17 of two cards.
C16_Witness ==
    /\ phase = "roundEnd" /\ ~dealer.hidden
    /\ Len(dealer.hand) = 2 /\ BestTotal(dealer.hand) = 17
    /\ \E k \in 1..2 : IsAce(dealer.hand[k])

\* ---------------------------------------------------------------- C17
\* C17: after nextRound every player has bet 0, an empty hand, status idle,
\* result "" and the chips held just before the call, the players are the
\* same in number, the dealer is empty with the card hidden, the phase is
\* betting and the round counter is exactly one higher.
C17_NextRoundResets ==
    [][(phase = "roundEnd" /\ TableShown /\ handleNextRound) =>
        /\ Len(players') = Len(players)
        /\ \A i \in 1..Len(players) :
              /\ players'[i].bet = 0
              /\ players'[i].hand = <<>>
              /\ players'[i].status = "idle"
              /\ players'[i].result = ""
              /\ players'[i].chips = players[i].chips
        /\ dealer'.hand = <<>> /\ dealer'.hidden
        /\ phase' = "betting"
        /\ round' = round + 1]_vars

\* C17 witness: the second round is open for bets and a player's chips differ
\* from the starting chips, so a settled round was reset.
C17_Witness ==
    /\ phase = "betting" /\ round = 2 /\ dealer = emptyDealer
    /\ \A i \in 1..Len(players) :
          players[i].bet = 0 /\ players[i].hand = <<>> /\ players[i].status = "idle"
    /\ \E i \in 1..Len(players) : players[i].chips # startingChips

\* ---------------------------------------------------------------- C18
\* The table is set up anew: handleModeChange or handleSetupApply of the
\* settings variant rebuild the players with the starting chips and empty the
\* pot.
TableSetUp ==
    /\ variant = "settings"
    /\ phase' \in {"setup", "betting"}
    /\ pot' = 0
    /\ \A i \in 1..Len(players') :
          /\ players'[i].chips = startingChips /\ players'[i].bet = 0
          /\ players'[i].status = "idle" /\ players'[i].hand = <<>>

\* The pot has changed through a deal adding the bets of a pooled round, or
\* through a settlement.
PotChangedByRound ==
    \/ DealToPlayingStep /\ IsPooled /\ pot' = pot + BetTotal
    \/ SettleStep /\ IsPooled

\* C18 (as claimed): nextRound leaves the pot and the deck as they are, and
\* the pot changes only in a deal (the bets added, pooled mode) and in a
\* settlement.
C18_PotChangesOnlyInRound ==
    [][/\ (phase = "roundEnd" /\ TableShown /\ handleNextRound) =>
             pot' = pot /\ deck' = deck
       /\ pot' # pot => PotChangedByRound]_vars

\* C18 (amended): nextRound leaves the pot and the deck as they are, and the
\* pot changes only in a deal (the bets added, pooled mode), in a settlement,
\* and when the table is set up anew, which empties it.
C18_PotChangesOnlyInRoundOrSetUp ==
    [][/\ (phase = "roundEnd" /\ TableShown /\ handleNextRound) =>
             pot' = pot /\ deck' = deck
       /\ pot' # pot => PotChangedByRound \/ TableSetUp]_vars

\* C18 witness: a pot that no player won has been carried into the betting
\* phase of the next round.
C18_Witness == phase = "betting" /\ round = 2 /\ pot > 0 /\ IsPooled

\* ---------------------------------------------------------------- C19
\* C19: stand() invoked while the phase is betting or roundEnd is a no-op: no
\* player's status, hand or chips change, the dealer, the deck and the pot are
\* untouched, and neither the dealer turn nor the settlement runs again.
C19_StandOutsidePlayingIsNoOp ==
    [][(phase # "playing" /\ TableShown /\ handleStand) =>
        /\ players' = players
        /\ dealer' = dealer
        /\ deck' = deck
        /\ pot' = pot
        /\ phase' = phase]_vars

\* ---------------------------------------------------------------- C20
\* C20: hit() invoked while the phase is not playing, or while the player at
\* the turn pointer is not active, is a no-op: no card is drawn and the deck,
\* the hands, the statuses, the chips, the pot and the phase are unchanged.
C20_HitOffTurnIsNoOp ==
    [][(/\ TableShown
        /\ \/ phase # "playing"
           \/ currentIndex >= Len(players)
           \/ players[currentIndex + 1].status # "active"
        /\ handleHit) =>
        /\ deck' = deck
        /\ players' = players
        /\ dealer' = dealer
        /\ pot' = pot
        /\ phase' = phase
        /\ currentIndex' = currentIndex]_vars

\* C20 witness: the round is settled, the deck has cards, and the turn pointer
\* rests on a player with a finished hand, whom a hit would have served.
C20_Witness ==
    /\ TableShown /\ phase = "roundEnd" /\ Len(deck) > 0
    /\ currentIndex < Len(players)
    /\ players[currentIndex + 1].status \in {"stand", "bust", "blackjack"}
    /\ Len(players[currentIndex + 1].hand) >= 2

\* ---------------------------------------------------------------- C21
\* C21: nextRound() invoked while the phase is betting or playing takes no
\* effect: hands, bets and statuses are kept, the phase does not change and
\* the round counter is not incremented.
C21_NextRoundOutsideRoundEndIsNoOp ==
    [][(phase # "roundEnd" /\ TableShown /\ handleNextRound) =>
        /\ players' = players
        /\ dealer' = dealer
        /\ phase' = phase
        /\ round' = round]_vars

\* ---------------------------------------------------------------- C22
\* The step changes at most the bet of the player at seat index.
OnlyBetOf(index) ==
    /\ players' = [players EXCEPT ![index + 1].bet = players'[index + 1].bet]
    /\ pot' = pot /\ deck' = deck /\ dealer' = dealer /\ phase' = phase

\* C22: each bet adjustment in the betting phase (chip button, clear, all-in,
\* typed entry) changes only the bet of the targeted player; chips, hand,
\* status and result of that player, every other player, the pot, the deck,
\* the dealer and the phase are unchanged, and with the chip-button
\* operations the targeted bet stays within 0 <= bet <= chips.  The chip
\* buttons are those of the lobby variant, the typed entry is that of the
\* settings variant.
C22_BetAdjustmentTouchesOnlyBet ==
    [][/\ \A index \in Seats :
            (/\ phase = "betting" /\ variant = "lobby" /\ TableShown
             /\ \/ \E amount \in ChipPresses : handleBetAdd(index, Chips(amount))
                \/ handleBetClear(index)
                \/ handleBetAllIn(index))
            => /\ OnlyBetOf(index)
               /\ 0 <= players'[index + 1].bet
               /\ players'[index + 1].bet <= players'[index + 1].chips
       /\ \A index \in Seats :
            (/\ phase = "betting" /\ variant = "settings"
             /\ \E halves \in TypedBets : handleBetChange(index, halves))
            => OnlyBetOf(index)]_vars

\* C22 witness: in the betting phase of a later round one seat has a bet
\* placed and the other has none, and the chips are not what a fresh table
\* gives.
C22_Witness ==
    /\ phase = "betting" /\ round > 1 /\ Len(players) = 2
    /\ players[1].bet > 0 /\ players[1].bet <= players[1].chips
    /\ players[2].bet = 0
    /\ players[1].chips # startingChips

\* ---------------------------------------------------------------- C23
\* The phase moves along the round: betting to playing (or straight to
\* roundEnd when the deal settles), playing to roundEnd, roundEnd to betting.
\* The setup phase of the settings variant precedes the first betting phase
\* and is entered again when the table is set up anew between two rounds.
RoundOrder ==
    {<<"betting", "playing">>, <<"betting", "roundEnd">>, <<"playing", "roundEnd">>,
     <<"roundEnd", "betting">>, <<"setup", "betting">>, <<"betting", "setup">>,
     <<"roundEnd", "setup">>}
    \cup {<<ph, ph>> : ph \in {"setup", "betting", "playing", "roundEnd"}}

\* No player of the round has been reset: each keeps a hand that starts with
\* the cards held before, and the bet.
PlayersKept ==
    /\ Len(players') = Len(players)
    /\ \A i \in 1..Len(players) :
          /\ Len(players'[i].hand) >= Len(players[i].hand)
          /\ players'[i].bet = players[i].bet

\* C23: the phase only moves betting -> playing -> roundEnd -> betting, and
\* once a deal has succeeded no step returns the table to betting, resets the
\* players or changes the payout mode before the round is settled.
C23_RoundRunsToSettlement ==
    [][/\ <<phase, phase'>> \in RoundOrder
       /\ phase = "playing" =>
             /\ phase' \in {"playing", "roundEnd"}
             /\ PlayersKept
             /\ IsPooled' = IsPooled]_vars

\* ---------------------------------------------------------------- C24
\* C24 (part_000, the lobby variant that shows the delta): when a round is
\* settled each player's delta is the final chips less the chips held just
\* before the deal debited the bet, and after nextRound the delta is 0 again.
C24_DeltaIsNetOfRound ==
    [][variant = "lobby" =>
        /\ SettleStep =>
              \A i \in 1..Len(players) :
                  players'[i].delta =
                      players'[i].chips - (BaseChips(i) + players[i].bet)
        /\ NextRoundStep => \A i \in 1..Len(players') : players'[i].delta = 0]_vars

\* C24 witness: a settled round of the lobby variant shows one seat a gain
\* and the other a loss of exactly its bet.
C24_Witness ==
    /\ variant = "lobby" /\ phase = "roundEnd" /\ Len(players) = 2
    /\ \E i, j \in 1..2 :
          /\ players[i].delta > 0
          /\ players[j].delta = 0 - players[j].bet /\ players[j].bet > 0

\* ---------------------------------------------------------------- C25
\* C25: starting from whole starting chips and whole bets, every player's
\* chips are a whole number of chips in every reachable state (balances are
\* kept in units of 1/Den chip).  The lobby variant takes bets from the chip
\* buttons only, so every bet placed on a whole balance is whole.
C25_ChipsAreWhole ==
    variant = "lobby" => \A i \in 1..Len(players) : players[i].chips % Den = 0

\* ---------------------------------------------------------------- C26
\* C26: a deal replaces a deck of fewer than 15 cards by a fresh shuffled
\* 52-card deck before dealing and deals from a deck of 15 or more cards as it
\* is; no other step replaces or reorders the deck: it only loses cards from
\* the top.
C26_DeckReplacedOnlyAtDeal ==
    [][/\ DealStep =>
             \E d \in PreparedDecks :
                 /\ Len(d) = (IF Len(deck) < 15 THEN 52 ELSE Len(deck))
                 /\ Len(deck') = Len(d) - (2 * Len(players) + Len(dealer'.hand))
                 /\ deck' = Prefix(d, Len(deck'))
       /\ ~DealStep =>
             /\ Len(deck') <= Len(deck)
             /\ deck' = Prefix(deck, Len(deck'))]_vars

\* C26 witness: hits, stands and dealer turns have drawn the deck below 15
\* cards without replacing it, and a deal with valid bets is about to find it.
C26_Witness ==
    /\ phase = "betting" /\ Len(players) > 0 /\ ~InvalidBets
    /\ Len(deck) < 15
    /\ \E seed \in Seeds : deck = Prefix(shuffle(createDeck, seed), Len(deck))

\* ---------------------------------------------------------------- C27
\* The hands on the table: the players' and the dealer's.
HandsOnTable == {players[i].hand : i \in 1..Len(players)} \cup {dealer.hand}

\* C27: calculateHand gives every hand the standard blackjack total: the
\* largest total not above 21 with each ace as 1 or 11, or the total with
\* every ace as 1 when there is none; {A,A,9} = 21, {A,9} = 20, {K,Q,2} = 22,
\* {A,A,A,8} = 21.  A hit marks the hand by that total: bust above 21, no
\* longer active at 21.
C27_StandardTotal ==
    /\ \A h \in HandsOnTable : calculateHand(h) = BestTotal(h)
    /\ calculateHand(<<1, 14, 9>>) = 21
    /\ calculateHand(<<1, 9>>) = 20
    /\ calculateHand(<<13, 12, 2>>) = 22
    /\ calculateHand(<<1, 14, 27, 8>>) = 21
    /\ \A i \in 1..Len(players) :
          /\ players[i].status = "bust" => BestTotal(players[i].hand) > 21
          /\ players[i].status = "active" => BestTotal(players[i].hand) < 21

\* C27 witness: a hit has completed three aces and an 8, and the hand stands
\* on 21.
C27_Witness ==
    \E i \in 1..Len(players) :
        /\ Len(players[i].hand) = 4
        /\ CountAces(players[i].hand) = 3
        /\ \E k \in 1..4 : RankIndex(players[i].hand[k]) = 7
        /\ players[i].status = "stand"

\* ---------------------------------------------------------------- C28
\* C28: from the deal until nextRound a player has status blackjack exactly
\* when the hand is two cards totalling 21; no hit or stand changes the hand
\* or the status of such a player; a player at 21 with three or more cards
\* has status stand, and nobody with three or more cards is settled with
\* result blackjack.
C28_BlackjackIsTwoCard21 ==
    [][/\ phase' \in {"playing", "roundEnd"} =>
             \A i \in 1..Len(players') :
                 /\ players'[i].status = "blackjack" <=> Natural(players'[i].hand)
                 /\ (Len(players'[i].hand) >= 3 /\ BestTotal(players'[i].hand) = 21)
                       => players'[i].status = "stand"
                 /\ Len(players'[i].hand) >= 3 => players'[i].result # "blackjack"
       /\ (/\ phase = "playing" /\ TableShown
           /\ \E i \in 1..Len(players) : players[i].status = "blackjack"
           /\ handleHit \/ handleStand)
          => /\ Len(players') = Len(players)
             /\ \A i \in 1..Len(players) :
                   players[i].status = "blackjack" =>
                       /\ players'[i].hand = players[i].hand
                       /\ players'[i].status = "blackjack"]_vars

\* C28 witness: a round is settled in which one seat holds a natural with
\* result blackjack and the other reached 21 with three cards and stood.
C28_Witness ==
    /\ phase = "roundEnd" /\ Len(players) = 2
    /\ \E i, j \in 1..2 :
          /\ players[i].status = "blackjack" /\ players[i].result = "blackjack"
          /\ Len(players[j].hand) >= 3 /\ BestTotal(players[j].hand) = 21
          /\ players[j].status = "stand"

\* ---------------------------------------------------------------- C29
\* C29: every state is phase-consistent: in betting all hands of players and
\* dealer are empty, every status is idle and every result is ""; in playing
\* every player and the dealer hold at least two cards and every result is
\* ""; in roundEnd no player is active or idle and every result is one of win,
\* lose, push, blackjack.
C29_PhaseConsistent ==
    /\ phase = "betting" =>
          /\ dealer.hand = <<>>
          /\ \A i \in 1..Len(players) :
                /\ players[i].hand = <<>>
                /\ players[i].status = "idle"
                /\ players[i].result = ""
    /\ phase = "playing" =>
          /\ Len(dealer.hand) >= 2
          /\ \A i \in 1..Len(players) :
                Len(players[i].hand) >= 2 /\ players[i].result = ""
    /\ phase = "roundEnd" =>
          \A i \in 1..Len(players) :
              /\ players[i].status \notin {"active", "idle"}
              /\ players[i].result \in {"win", "lose", "push", "blackjack"}

\* ---------------------------------------------------------------- C30
\* Seat i's chips and bet are what they were.
MoneyKept(i) ==
    players'[i].chips = players[i].chips /\ players'[i].bet = players[i].bet

\* The step pays the players of a round: a deal has debited the bets or a
\* settlement has credited the chips.
DebitOrCredit == DealStep \/ SettleStep

\* Some seat that is kept holds other chips than before.
ChipsChanged ==
    \E i \in 1..Min(Len(players), Len(players')) : players'[i].chips # players[i].chips

\* The players have just been built: buildPlayers gives every seat the
\* starting chips, no bet and no cards (table opened or set up anew, seat
\* count changed).
PlayersBuilt ==
    \A i \in 1..Len(players') :
        /\ players'[i].chips = startingChips'
        /\ players'[i].bet = 0 /\ players'[i].hand = <<>>
        /\ players'[i].status = "idle"

\* A hit or a stand of the page that leaves the round in play pays nobody.
HitOrStandKeepsMoney ==
    (/\ phase = "playing" /\ phase' = "playing" /\ TableShown
     /\ handleHit \/ handleStand)
    => /\ pot' = pot
       /\ Len(players') = Len(players)
       /\ \A i \in 1..Len(players) : MoneyKept(i)

\* C30 (as claimed): while the phase is playing, a hit or a stand that does
\* not end the last active player's turn leaves every player's chips and bet
\* and the pot unchanged; chips change only in an accepted deal and in a
\* settlement.
C30_ChipsMoveOnlyAtDealAndSettlement ==
    [][/\ HitOrStandKeepsMoney
       /\ ChipsChanged => DebitOrCredit]_vars

\* C30 (amended): the same, and chips also change when the players are built
\* anew with the starting chips.
C30_ChipsMoveAtDealSettlementOrBuild ==
    [][/\ HitOrStandKeepsMoney
       /\ ChipsChanged =>
             DebitOrCredit \/ PlayersBuilt]_vars

\* C30 witness: a player has taken a third card and is still to act, with
\* the bet debited and nothing paid yet.
C30_Witness ==
    /\ phase = "playing" /\ Acting
    /\ Len(players[currentIndex + 1].hand) >= 3
    /\ players[currentIndex + 1].bet > 0
    /\ players[currentIndex + 1].chips =
          players[currentIndex + 1].roundStartChips - players[currentIndex + 1].bet

\* ---------------------------------------------------------------- C31
\* The (suit, rank) combination of a card.
SuitRank(c) == <<SuitIndex(c), RankIndex(c)>>

\* The 52 combinations of 4 suits and 13 ranks.
Combinations == (0..3) \X (0..12)

\* The combinations found in a sequence of cards.
CombinationsIn(cards) == {SuitRank(cards[k]) : k \in 1..Len(cards)}

\* The number of cards on the table: in the deck, in the players' hands and
\* in the dealer's hand.
CardsOnTable ==
    Len(deck) + SeqSum([i \in 1..Len(players) |-> Len(players[i].hand)]) + Len(dealer.hand)

\* The combinations on the table.
CombinationsOnTable ==
    CombinationsIn(deck) \cup CombinationsIn(dealer.hand)
    \cup UNION {CombinationsIn(players[i].hand) : i \in 1..Len(players)}

\* C31: in every state the cards in the deck, in all player hands and in the
\* dealer's hand are pairwise distinct (suit, rank) combinations, and a deck
\* freshly created and shuffled holds each of the 52 combinations exactly
\* once: as long as no card of it has left the table, the 52 cards on the
\* table are the 52 combinations.
C31_CardsAreDistinct ==
    /\ Cardinality(CombinationsOnTable) = CardsOnTable
    /\ CardsOnTable <= 52
    /\ Len(deck) = 52 => CombinationsIn(deck) = Combinations
    /\ CardsOnTable = 52 => CombinationsOnTable = Combinations

\* C31 witness: in the second round a player holds three cards or more, the
\* dealer holds two and the cards of the first round are gone from the table.
C31_Witness ==
    /\ phase = "playing" /\ round = 2 /\ Len(dealer.hand) = 2
    /\ \E i \in 1..Len(players) : Len(players[i].hand) >= 3
    /\ CardsOnTable < 52

\* ---------------------------------------------------------------- C32
\* All the money on the table: the players' chips and the pot.
MoneyOnTable == SeqSum([i \in 1..Len(players) |-> players[i].chips]) + pot

\* C32: a pooled settlement never credits the winners more than the pot less
\* the push refunds, and in pooled mode the players' chips plus the pot never
\* exceed seats x starting chips.
C32_PooledPaysNoMoreThanThePot ==
    [][/\ (SettleStep /\ IsPooled) => CreditedToWinners <= RemainingPot
       /\ IsPooled' => MoneyOnTable' <= Len(players') * startingChips']_vars

\* ---------------------------------------------------------------- C33
\* C33: a player settled with result win or blackjack never ends the round
\* with fewer chips than held just before the deal, in pooled mode as in
\* independent mode.
C33_WinnerNeverLoses ==
    [][SettleStep =>
        \A i \in WinnersAfter :
            players'[i].chips >= BaseChips(i) + players[i].bet]_vars

\* ---------------------------------------------------------------- C34
\* Some assignment of bets is accepted by handleDeal: every seat can be given
\* a bet with 0 < bet <= chips, which is to say every seat holds chips.
SomeBetsAreValid == \A i \in 1..Len(players) : \E b \in 1..Max(1, players[i].chips) :
    b > 0 /\ b <= players[i].chips

\* C34: the table never gets stuck in betting: in every betting state some
\* choice of bets makes the deal succeed.
C34_BettingNeverStuck ==
    (phase = "betting" /\ TableShown /\ Len(players) > 0) => SomeBetsAreValid

\* ---------------------------------------------------------------- C35
\* The hard total of a hand: every ace counts 1.
HardTotal(hand) ==
    SeqSum([k \in 1..Len(hand) |-> IF IsAce(hand[k]) THEN 1 ELSE CardValue(hand[k])])

\* What the players still to act can draw at most before they are all done:
\* an active hand is below 21, every hit raises its hard total.
TurnsLeft(ps) ==
    SeqSum([i \in 1..Len(ps) |->
               IF ps[i].status = "active" THEN 22 - HardTotal(ps[i].hand) ELSE 0])

\* C35: every round terminates.  Stated by its measure: whenever the table is
\* in the playing phase the pointer is on a player who can act, and every hit
\* or stand either ends the round, the dealer's draw loop having run to its
\* end, or leaves the players strictly less to draw; so no sequence of hits
\* and stands goes on forever and none stops short of roundEnd.
C35_RoundTerminates ==
    [][/\ phase' = "playing" => Acting'
       /\ (/\ phase = "playing" /\ TableShown
           /\ handleHit \/ handleStand)
          => \/ phase' = "roundEnd" /\ ~fault'
             \/ phase' = "playing" /\ TurnsLeft(players') < TurnsLeft(players)]_vars

\* ---------------------------------------------------------------- C36
\* C36: the pot is never negative, it is 0 whenever payout is not pooled, and
\* with pooled payout it holds, all through the playing phase, the pot carried
\* into the round plus the bets of the round: the deal adds the bets and no
\* hit or stand that stays in the playing phase changes it.
C36_PotInvariant ==
    [][/\ pot >= 0 /\ pot' >= 0
       /\ ~IsPooled' => pot' = 0
       /\ (DealToPlayingStep /\ IsPooled') => pot' = pot + BetTotal'
       /\ (phase = "playing" /\ phase' = "playing" /\ IsPooled') => pot' = pot]_vars

=============================================================================
